---------------------------- MODULE Spec2Model ----------------------------
(***************************************************************************)
(* Model of tdo_core's container `Tdo` (src/src/tdo.rs): the collection of *)
(* todo lists, its list and item operations, save/load and the importer of *)
(* the legacy JSON layout (update_json).                                   *)
(*                                                                         *)
(* Rust vectors are sequences; index i of the code is index i+1 here and   *)
(* the `Err(NoSuchList)` of get_list_index is index 0.                     *)
(***************************************************************************)
EXTENDS Integers, Sequences, FiniteSets, TLC

VARIABLES
    lists,      \* Tdo.lists: the container's vector of TodoList
    version,    \* Tdo.version
    file,       \* what the file system holds at the one path used
    last,       \* the last call: operation, arguments, returned value
    pre,        \* Tdo.lists as it was when the last call started
    chain       \* snapshot taken before a done_id directly followed by clean_lists

vars == <<lists, version, file, last, pre, chain>>

---------------------------------------------------------------------------
(* Bounds of the model and the inputs the callers draw from.               *)

MaxTodos == 2

\* Names of the lists callers create, and names callers look lists up by.
ListNames == {"default", "Default", "work", "home"}
NameArgs  == {"default", "Default", "DEFAULT", "Work", "home", "missing"}
Ids       == {1, 2}

\* str::to_lowercase on the names the model uses.
ToLowercase(s) ==
    CASE s \in {"default", "Default", "DEFAULT"} -> "default"
      [] s \in {"work", "Work"} -> "work"
      [] OTHER -> s

\* env!("CARGO_PKG_VERSION")
PkgVersion == "0.2.1"

---------------------------------------------------------------------------
(* Todo and TodoList (modules todo and list of the crate).                 *)

\* Todo::new(id, name): a todo that is not done.
TodoNew(id, name) == [id |-> id, name |-> name, done |-> FALSE]

\* Todo::set_done
SetDone(todo) == [todo EXCEPT !.done = TRUE]

\* TodoList::new(name): an empty list with that name.
TodoListNew(name) == [name |-> name, list |-> <<>>]

\* TodoList::default(): the empty list named "default".
TodoListDefault == TodoListNew("default")

\* TodoList::add: push the todo at the end.
ListAdd(l, todo) == [l EXCEPT !.list = Append(@, todo)]

\* Index of the first todo of the list with this id, 0 when there is none.
ContainsId(l, id) ==
    IF \E i \in 1..Len(l.list) : l.list[i].id = id
    THEN CHOOSE i \in 1..Len(l.list) :
            /\ l.list[i].id = id
            /\ \A j \in 1..(i - 1) : l.list[j].id # id
    ELSE 0

\* TodoList::done_id: mark the first todo with this id as done.
ListDoneId(l, id) ==
    LET i == ContainsId(l, id)
    IN  IF i = 0 THEN l ELSE [l EXCEPT !.list[i] = SetDone(@)]

\* Sequence s without its element at index i.
RemoveAt(s, i) == SubSeq(s, 1, i - 1) \o SubSeq(s, i + 1, Len(s))

\* TodoList::remove_id: remove the first todo with this id.
ListRemoveId(l, id) ==
    LET i == ContainsId(l, id)
    IN  IF i = 0 THEN l ELSE [l EXCEPT !.list = RemoveAt(@, i)]

\* TodoList::clean: keep the todos that are not done.
ListClean(l) == [l EXCEPT !.list = SelectSeq(@, LAMBDA t : ~t.done)]

---------------------------------------------------------------------------
(* Tdo: the container operations, each as the function the code computes:  *)
(* [lists |-> self.lists afterwards, res |-> the returned value].          *)

\* Tdo::new
new == [lists |-> <<TodoListDefault>>, version |-> PkgVersion]

\* Tdo::get_list_index: position of the first list whose lowercased name
\* equals the lowercased argument; 0 is Err(NoSuchList).
get_list_index(ls, name) ==
    IF \E i \in 1..Len(ls) : ToLowercase(ls[i].name) = ToLowercase(name)
    THEN CHOOSE i \in 1..Len(ls) :
            /\ ToLowercase(ls[i].name) = ToLowercase(name)
            /\ \A j \in 1..(i - 1) : ToLowercase(ls[j].name) # ToLowercase(name)
    ELSE 0

\* add_list with the duplicate check comparing the names as stored.
add_list_exact_names(ls, list) ==
    IF \E i \in 1..Len(ls) : ls[i].name = list.name
    THEN [lists |-> ls, res |-> "NameAlreadyExists"]
    ELSE [lists |-> Append(ls, list), res |-> "Ok"]

\* add_list inserting the new list at the front instead of pushing it.
add_list_front(ls, list) ==
    IF get_list_index(ls, list.name) # 0
    THEN [lists |-> ls, res |-> "NameAlreadyExists"]
    ELSE [lists |-> <<list>> \o ls, res |-> "Ok"]

\* Tdo::add_list
add_list(ls, list) ==
    IF get_list_index(ls, list.name) # 0
    THEN [lists |-> ls, res |-> "NameAlreadyExists"]
    ELSE [lists |-> Append(ls, list), res |-> "Ok"]

\* remove_list taking the last list that matches instead of the first.
remove_list_last_match(ls, list_name) ==
    IF list_name = "default"
    THEN [lists |-> ls, res |-> "CanNotRemoveDefault"]
    ELSE IF get_list_index(ls, list_name) # 0
         THEN LET index == CHOOSE i \in 1..Len(ls) :
                              /\ ToLowercase(ls[i].name) = ToLowercase(list_name)
                              /\ \A j \in (i + 1)..Len(ls) :
                                      ToLowercase(ls[j].name) # ToLowercase(list_name)
              IN  [lists |-> RemoveAt(ls, index), res |-> "Ok"]
         ELSE [lists |-> ls, res |-> "NoSuchList"]

\* Tdo::remove_list: the guard compares the argument with "default" as is.
remove_list(ls, list_name) ==
    IF list_name = "default"
    THEN [lists |-> ls, res |-> "CanNotRemoveDefault"]
    ELSE LET index == get_list_index(ls, list_name)
         IN  IF index # 0
             THEN [lists |-> RemoveAt(ls, index), res |-> "Ok"]
             ELSE [lists |-> ls, res |-> "NoSuchList"]

\* Option<&str>
None == [some |-> FALSE, v |-> ""]
Some(s) == [some |-> TRUE, v |-> s]
UnwrapOr(o, d) == IF o.some THEN o.v ELSE d

\* add_todo falling back to the first list when the name matches none.
add_todo_fallback(ls, list_name, todo) ==
    LET index == get_list_index(ls, UnwrapOr(list_name, "default"))
        target == IF index # 0 THEN index ELSE 1
    IN  IF Len(ls) > 0
        THEN [lists |-> [ls EXCEPT ![target] = ListAdd(@, todo)], res |-> "Ok"]
        ELSE [lists |-> ls, res |-> "NoSuchList"]

\* Tdo::add_todo
add_todo(ls, list_name, todo) ==
    LET index == get_list_index(ls, UnwrapOr(list_name, "default"))
    IN  IF index # 0
        THEN [lists |-> [ls EXCEPT ![index] = ListAdd(@, todo)], res |-> "Ok"]
        ELSE [lists |-> ls, res |-> "NoSuchList"]

\* done_id marking every todo with the id, not the first of each list.
done_id_every_match(ls, id) ==
    [i \in 1..Len(ls) |->
        [ls[i] EXCEPT !.list =
            [k \in 1..Len(ls[i].list) |->
                IF ls[i].list[k].id = id THEN SetDone(ls[i].list[k]) ELSE ls[i].list[k]]]]

\* done_id stopping after the first list that holds the id.
done_id_first_list_only(ls, id) ==
    [i \in 1..Len(ls) |->
        IF \E h \in 1..(i - 1) : ContainsId(ls[h], id) # 0
        THEN ls[i]
        ELSE ListDoneId(ls[i], id)]

\* Tdo::done_id: TodoList::done_id on every list of self.
done_id(ls, id) == [i \in 1..Len(ls) |-> ListDoneId(ls[i], id)]

\* Tdo::remove_id: TodoList::remove_id on every list of self.to_owned(), a
\* clone that is dropped when the loop ends; self.lists is not written.
remove_id(ls, id) ==
    LET owned == [i \in 1..Len(ls) |-> ListRemoveId(ls[i], id)]
    IN  ls

\* Tdo::clean_lists: TodoList::clean on every list of self.
clean_lists(ls) == [i \in 1..Len(ls) |-> ListClean(ls[i])]

---------------------------------------------------------------------------
(* JSON documents, as the trees serde_json and json::parse build from the  *)
(* text of a file. Object entries keep the order of the text. The keys of  *)
(* the inner objects of a legacy document are sequences of characters, so  *)
(* that parsing them is computed.                                          *)

JNull    == [t |-> "null"]
JBool(b) == [t |-> "bool", b |-> b]
JNum(n)  == [t |-> "num", n |-> n]
JStr(str) == [t |-> "str", s |-> str]
JArr(a)  == [t |-> "arr", a |-> a]
JObj(e)  == [t |-> "obj", e |-> e]
Entry(k, v) == [k |-> k, v |-> v]

\* What the path holds: nothing that can be opened, bytes that are not
\* UTF-8, text that is not JSON, or the text of a JSON document.
NoFile      == [kind |-> "missing", doc |-> JNull]
NotUtf8File == [kind |-> "notutf8", doc |-> JNull]
NotJsonFile == [kind |-> "notjson", doc |-> JNull]
JsonFile(d) == [kind |-> "json", doc |-> d]

\* Serialize, derived for Todo, TodoList and Tdo: a struct is written as an
\* object of its fields in declaration order.
SerTodo(t) ==
    JObj(<<Entry("id", JNum(t.id)), Entry("name", JStr(t.name)), Entry("done", JBool(t.done))>>)

SerTodoList(l) ==
    JObj(<<Entry("name", JStr(l.name)),
           Entry("list", JArr([k \in 1..Len(l.list) |-> SerTodo(l.list[k])]))>>)

SerTdo(ls, ver) ==
    JObj(<<Entry("lists", JArr([i \in 1..Len(ls) |-> SerTodoList(ls[i])])),
           Entry("version", JStr(ver))>>)

\* Deserialize, derived: a struct is read from an object that has every field
\* (other keys are skipped) or from an array of exactly its fields in order.
HasField(v, k) == \E i \in 1..Len(v.e) : v.e[i].k = k
Field(v, k) == v.e[CHOOSE i \in 1..Len(v.e) : v.e[i].k = k].v

StructFields(v, names) ==
    IF v.t = "obj" /\ \A n \in 1..Len(names) : HasField(v, names[n])
    THEN [ok |-> TRUE, f |-> [n \in 1..Len(names) |-> Field(v, names[n])]]
    ELSE IF v.t = "arr" /\ Len(v.a) = Len(names)
    THEN [ok |-> TRUE, f |-> v.a]
    ELSE [ok |-> FALSE, f |-> <<>>]

DeTodo(v) ==
    LET s == StructFields(v, <<"id", "name", "done">>)
    IN  IF s.ok /\ s.f[1].t = "num" /\ s.f[2].t = "str" /\ s.f[3].t = "bool"
        THEN [ok |-> TRUE, v |-> [id |-> s.f[1].n, name |-> s.f[2].s, done |-> s.f[3].b]]
        ELSE [ok |-> FALSE, v |-> [id |-> 0, name |-> "", done |-> FALSE]]

DeTodoList(v) ==
    LET s == StructFields(v, <<"name", "list">>)
    IN  IF /\ s.ok /\ s.f[1].t = "str" /\ s.f[2].t = "arr"
           /\ \A k \in 1..Len(s.f[2].a) : DeTodo(s.f[2].a[k]).ok
        THEN [ok |-> TRUE,
              v |-> [name |-> s.f[1].s,
                     list |-> [k \in 1..Len(s.f[2].a) |-> DeTodo(s.f[2].a[k]).v]]]
        ELSE [ok |-> FALSE, v |-> [name |-> "", list |-> <<>>]]

DeTdo(v) ==
    LET s == StructFields(v, <<"lists", "version">>)
    IN  IF /\ s.ok /\ s.f[1].t = "arr" /\ s.f[2].t = "str"
           /\ \A i \in 1..Len(s.f[1].a) : DeTodoList(s.f[1].a[i]).ok
        THEN [ok |-> TRUE,
              lists |-> [i \in 1..Len(s.f[1].a) |-> DeTodoList(s.f[1].a[i]).v],
              version |-> s.f[2].s]
        ELSE [ok |-> FALSE, lists |-> <<>>, version |-> ""]

\* serde_json::from_reader::<Tdo>(&file): the bytes must be UTF-8 JSON text
\* and the document must deserialize as a Tdo.
from_reader(f) ==
    IF f.kind = "json" THEN DeTdo(f.doc) ELSE [ok |-> FALSE, lists |-> <<>>, version |-> ""]

---------------------------------------------------------------------------
(* update_json: the importer of the legacy layout.                         *)

Digits == <<"0", "1", "2", "3", "4", "5", "6", "7", "8", "9">>
IsDigit(c) == \E d \in 1..10 : Digits[d] = c
DigitValue(c) == (CHOOSE d \in 1..10 : Digits[d] = c) - 1

\* u32::MAX, 4294967295, in decimal digits.
U32MaxDigits == <<"4", "2", "9", "4", "9", "6", "7", "2", "9", "5">>

RECURSIVE StripZeros(_)
StripZeros(s) == IF Len(s) > 1 /\ s[1] = "0" THEN StripZeros(Tail(s)) ELSE s

\* a > b for two digit sequences of the same length.
RECURSIVE DigitsGreater(_, _)
DigitsGreater(a, b) ==
    IF Len(a) = 0 THEN FALSE
    ELSE IF DigitValue(a[1]) # DigitValue(b[1]) THEN DigitValue(a[1]) > DigitValue(b[1])
    ELSE DigitsGreater(Tail(a), Tail(b))

\* The digits denote a number above u32::MAX.
OverflowsU32(s) ==
    LET z == StripZeros(s)
    IN  \/ Len(z) > Len(U32MaxDigits)
        \/ Len(z) = Len(U32MaxDigits) /\ DigitsGreater(z, U32MaxDigits)

RECURSIVE Accumulate(_, _)
Accumulate(s, acc) ==
    IF Len(s) = 0 THEN acc ELSE Accumulate(Tail(s), acc * 10 + DigitValue(s[1]))

\* str::parse::<u32>: an optional "+", then one or more digits, no overflow.
ParseU32(s) ==
    LET digits == IF Len(s) > 0 /\ s[1] = "+" THEN Tail(s) ELSE s
    IN  IF \/ Len(digits) = 0
           \/ \E i \in 1..Len(digits) : ~IsDigit(digits[i])
           \/ OverflowsU32(digits)
        THEN [ok |-> FALSE, v |-> 0]
        ELSE [ok |-> TRUE, v |-> Accumulate(digits, 0)]

\* JsonValue::entries_mut: the entries of an object, none for any other value.
Entries(v) == IF v.t = "obj" THEN v.e ELSE <<>>

\* JsonValue::pop: [popped |-> the last element of an array, Null for an empty
\* array or any other value; rest |-> the value afterwards].
Pop(v) ==
    IF v.t = "arr" /\ Len(v.a) > 0
    THEN [popped |-> v.a[Len(v.a)], rest |-> JArr(SubSeq(v.a, 1, Len(v.a) - 1))]
    ELSE [popped |-> JNull, rest |-> v]

\* The body of the inner loop for one entry of a list's object.
ImportTodo_never_done(inner) ==
    LET tdo_id == ParseU32(inner.k)
        first  == Pop(inner.v)
        second == Pop(first.rest)
    IN  IF ~tdo_id.ok \/ first.popped.t # "bool" \/ second.popped.t # "str"
        THEN [ok |-> FALSE, v |-> [id |-> 0, name |-> "", done |-> FALSE]]
        ELSE [ok |-> TRUE, v |-> TodoNew(tdo_id.v, second.popped.s)]

ImportTodo(inner) ==
    LET tdo_id == ParseU32(inner.k)
        first  == Pop(inner.v)
        second == Pop(first.rest)
    IN  IF ~tdo_id.ok
        THEN [ok |-> FALSE, v |-> [id |-> 0, name |-> "", done |-> FALSE]]
        ELSE IF first.popped.t # "bool"
        THEN [ok |-> FALSE, v |-> [id |-> 0, name |-> "", done |-> FALSE]]
        ELSE IF second.popped.t # "str"
        THEN [ok |-> FALSE, v |-> [id |-> 0, name |-> "", done |-> FALSE]]
        ELSE LET todo == TodoNew(tdo_id.v, second.popped.s)
             IN  [ok |-> TRUE, v |-> IF first.popped.b THEN SetDone(todo) ELSE todo]

RECURSIVE SumLen(_, _)
SumLen(ls, i) == IF i > Len(ls) THEN 0 ELSE Len(ls[i].list) + SumLen(ls, i + 1)

\* Number of todos in the whole container.
TotalTodos(ls) == SumLen(ls, 1)

\* The inner loop skipping an entry that does not convert instead of returning.
RECURSIVE ImportTodos_skip_bad(_, _, _)
ImportTodos_skip_bad(inner, k, list) ==
    IF k > Len(inner) THEN [ok |-> TRUE, v |-> list]
    ELSE IF ~ImportTodo(inner[k]).ok THEN ImportTodos_skip_bad(inner, k + 1, list)
    ELSE ImportTodos_skip_bad(inner, k + 1, ListAdd(list, ImportTodo(inner[k]).v))

\* The inner loop from entry k on: every entry converts, or the function returns.
RECURSIVE ImportTodos(_, _, _)
ImportTodos(inner, k, list) ==
    IF k > Len(inner) THEN [ok |-> TRUE, v |-> list]
    ELSE IF ~ImportTodo(inner[k]).ok THEN [ok |-> FALSE, v |-> list]
    ELSE ImportTodos(inner, k + 1, ListAdd(list, ImportTodo(inner[k]).v))

\* The outer loop from entry i on. `built` counts the TodoList and Todo values
\* constructed when the loop ends or the function returns.
RECURSIVE ImportLists(_, _, _)
ImportLists(outer, i, acc) ==
    IF i > Len(outer)
    THEN [ok |-> TRUE, v |-> acc, built |-> Len(acc) + TotalTodos(acc)]
    ELSE LET list == ImportTodos(Entries(outer[i].v), 1, TodoListNew(outer[i].k))
         IN  IF ~list.ok
             THEN [ok |-> FALSE, v |-> acc,
                   built |-> Len(acc) + TotalTodos(acc) + 1 + Len(list.v.list)]
             ELSE ImportLists(outer, i + 1, Append(acc, list.v))

Outcome(res, ls, ver, built) == [res |-> res, lists |-> ls, version |-> ver, built |-> built]

\* update_json taking text that does not parse for a document with no lists.
update_json_unparsed_as_empty(f) ==
    IF f.kind = "missing" \/ f.kind = "notutf8" THEN Outcome("panic", <<>>, "", 0)
    ELSE LET conv == ImportLists(IF f.kind = "json" THEN Entries(f.doc) ELSE <<>>, 1, <<>>)
         IN  IF conv.ok THEN Outcome("Ok", conv.v, PkgVersion, conv.built)
             ELSE Outcome("UnableToConvert", <<>>, "", conv.built)

\* update_json(path), given what the path holds when it opens the file.
update_json(f) ==
    IF f.kind = "missing" \/ f.kind = "notutf8" THEN Outcome("panic", <<>>, "", 0)
    ELSE IF f.kind = "notjson" THEN Outcome("FileCorrupted", <<>>, "", 0)
    ELSE LET conv == ImportLists(Entries(f.doc), 1, <<>>)
         IN  IF conv.ok THEN Outcome("Ok", conv.v, PkgVersion, conv.built)
             ELSE Outcome("UnableToConvert", <<>>, "", conv.built)

\* load handing a path it could not open to the importer.
load_import_when_not_opened(first, second) ==
    LET tdo == from_reader(first)
        old == update_json(second)
    IN  IF first.kind # "missing" /\ tdo.ok
        THEN [branch |-> "current", res |-> "Ok",
              lists |-> tdo.lists, version |-> tdo.version, built |-> 0]
        ELSE [branch |-> "legacy", res |-> old.res,
              lists |-> old.lists, version |-> old.version, built |-> old.built]

\* Tdo::load(path): `first` is what File::open finds, `second` what the
\* importer finds when it opens the path again.
load(first, second) ==
    IF first.kind = "missing"
    THEN [branch |-> "none", res |-> "FileNotFound", lists |-> <<>>, version |-> "",
          built |-> 0]
    ELSE LET tdo == from_reader(first)
             old == update_json(second)
         IN  IF tdo.ok
             THEN [branch |-> "current", res |-> "Ok",
                   lists |-> tdo.lists, version |-> tdo.version, built |-> 0]
             ELSE [branch |-> "legacy", res |-> old.res,
                   lists |-> old.lists, version |-> old.version, built |-> old.built]

\* Tdo::save(path) of a container, `old` being what the path holds: File::create
\* may fail; the result of to_writer_pretty is dropped, so a write that fails
\* leaves the truncated, partly written file and save still returns Ok.
save(ls, ver, old, created, written) ==
    IF ~created THEN [file |-> old, res |-> "SaveFailure"]
    ELSE [file |-> IF written THEN JsonFile(SerTdo(ls, ver)) ELSE NotJsonFile,
          res |-> "Ok"]

---------------------------------------------------------------------------
(* The record of the last call.                                            *)

NoTodo == [id |-> 0, name |-> "", done |-> FALSE]
NoList == [name |-> "", list |-> <<>>]
NoChain == [x |-> 0, lists |-> <<>>]

\* For a load: the branch taken, what File::open found, what the importer
\* read, whether the load directly follows a save that returned Ok, whether
\* the file stayed as it was from the first open to the second, Tdo.version
\* before the call, and how many lists and todos the importer constructed.
NoIo == [branch |-> "none", first |-> NoFile, read |-> NoFile, after_save |-> FALSE,
         same |-> TRUE, ver |-> "", built |-> 0]

Call(op, name, id, todo, list, res) ==
    [op |-> op, name |-> name, id |-> id, todo |-> todo, list |-> list, res |-> res,
     io |-> NoIo]

\* The lists callers hand to add_list: TodoList::new(name), with or without
\* one todo added before the call.
ListArgs ==
    {TodoListNew(n) : n \in ListNames}
    \cup {ListAdd(TodoListNew("home"), TodoNew(1, "a"))}

\* The todos callers hand to add_todo, and the list names they give with them.
TodoArgs == {TodoNew(1, "a"), TodoNew(2, "b")}
TodoListArgs == {None, Some("Default"), Some("Work"), Some("missing")}

Init ==
    /\ lists = new.lists
    /\ version = new.version
    /\ file = NoFile
    /\ last = Call("new", None, 0, NoTodo, NoList, "Ok")
    /\ pre = <<>>
    /\ chain = NoChain

AddList ==
    \E list \in ListArgs :
        /\ TotalTodos(lists) + Len(list.list) <= MaxTodos
        /\ lists' = add_list(lists, list).lists
        /\ last' = Call("add_list", Some(list.name), 0, NoTodo, list, add_list(lists, list).res)
        /\ pre' = lists
        /\ chain' = NoChain
        /\ UNCHANGED <<version, file>>

RemoveList ==
    \E name \in NameArgs :
        /\ lists' = remove_list(lists, name).lists
        /\ last' = Call("remove_list", Some(name), 0, NoTodo, NoList, remove_list(lists, name).res)
        /\ pre' = lists
        /\ chain' = NoChain
        /\ UNCHANGED <<version, file>>

AddTodo ==
    \E name \in TodoListArgs, todo \in TodoArgs :
        /\ TotalTodos(lists) < MaxTodos
        /\ lists' = add_todo(lists, name, todo).lists
        /\ last' = Call("add_todo", name, 0, todo, NoList, add_todo(lists, name, todo).res)
        /\ pre' = lists
        /\ chain' = NoChain
        /\ UNCHANGED <<version, file>>

DoneId ==
    \E id \in Ids :
        /\ lists' = done_id(lists, id)
        /\ last' = Call("done_id", None, id, NoTodo, NoList, "Ok")
        /\ pre' = lists
        /\ chain' = NoChain
        /\ UNCHANGED <<version, file>>

RemoveId ==
    \E id \in Ids :
        /\ lists' = remove_id(lists, id)
        /\ last' = Call("remove_id", None, id, NoTodo, NoList, "Ok")
        /\ pre' = lists
        /\ chain' = NoChain
        /\ UNCHANGED <<version, file>>

CleanLists ==
    /\ lists' = clean_lists(lists)
    /\ last' = Call("clean_lists", None, 0, NoTodo, NoList, "Ok")
    /\ pre' = lists
    /\ chain' = IF last.op = "done_id" THEN [x |-> last.id, lists |-> pre] ELSE NoChain
    /\ UNCHANGED <<version, file>>

Next ==
    \/ AddList
    \/ RemoveList
    \/ AddTodo
    \/ DoneId
    \/ RemoveId
    \/ CleanLists

Spec == Init /\ [][Next]_vars

---------------------------------------------------------------------------
(* Properties of the list and item operations, checked under Spec.         *)

Lower(l) == ToLowercase(l.name)

HasDefault(ls) == \E i \in 1..Len(ls) : ls[i].name = "default"

Matches(ls, name) == \E i \in 1..Len(ls) : Lower(ls[i]) = ToLowercase(name)

\* C1: in every reachable state the collection contains the list named
\* "default"; no sequence of operations removes it.
C1_DefaultNeverRemoved == HasDefault(lists)

\* C2: remove_list with a name equal to "default" in any casing returns
\* CanNotRemoveDefault and leaves the lists unchanged.
C2_RemoveDefaultAnyCasing ==
    (last.op = "remove_list" /\ ToLowercase(last.name.v) = "default")
        => (last.res = "CanNotRemoveDefault" /\ lists = pre)

\* C3: no two lists of a reachable container have names that are equal when
\* compared case-insensitively.
C3_NamesUnique ==
    \A i, j \in 1..Len(lists) : i # j => Lower(lists[i]) # Lower(lists[j])

\* add_list refused a list whose name differs only in casing from a stored one.
C3_Witness ==
    /\ last.op = "add_list"
    /\ last.res = "NameAlreadyExists"
    /\ Len(lists) >= 2
    /\ \A i \in 1..Len(lists) : lists[i].name # last.list.name

\* C4: add_list returns NameAlreadyExists and leaves the collection as it was
\* when a list with the same name in any casing is present; otherwise it
\* returns Ok, the new list is the last element and the earlier lists keep
\* their position and content.
C4_AddList ==
    last.op = "add_list" =>
        IF Matches(pre, last.list.name)
        THEN last.res = "NameAlreadyExists" /\ lists = pre
        ELSE /\ last.res = "Ok"
             /\ Len(lists) = Len(pre) + 1
             /\ lists[Len(lists)] = last.list
             /\ \A i \in 1..Len(pre) : lists[i] = pre[i]

\* add_list succeeded on a container that already held two lists and a todo.
C4_Witness ==
    /\ last.op = "add_list"
    /\ last.res = "Ok"
    /\ Len(pre) = 2
    /\ TotalTodos(pre) > 0

\* C5: add_todo(None, item) returns Ok and appends the item to the list named
\* "default", leaving every other list unchanged; it never returns NoSuchList.
C5_AddTodoNoneLandsInDefault ==
    (last.op = "add_todo" /\ ~last.name.some) =>
        /\ last.res = "Ok"
        /\ \E i \in 1..Len(pre) :
              /\ pre[i].name = "default"
              /\ lists = [pre EXCEPT ![i] = [@ EXCEPT !.list = Append(@, last.todo)]]

\* C6: add_todo(Some(name), item) with a name that matches no list
\* case-insensitively returns NoSuchList and leaves the container unchanged.
C6_AddTodoMissingList ==
    (last.op = "add_todo" /\ last.name.some /\ ~Matches(pre, last.name.v))
        => (last.res = "NoSuchList" /\ lists = pre)

\* add_todo was called with a name no list has, on a container with lists and todos.
C6_Witness ==
    /\ last.op = "add_todo"
    /\ last.name.some
    /\ ~Matches(pre, last.name.v)
    /\ Len(pre) >= 2
    /\ TotalTodos(pre) > 0

\* The todos of list l without the first one that has this id.
WithoutFirst(l, id) ==
    IF ContainsId(l, id) = 0 THEN l.list ELSE RemoveAt(l.list, ContainsId(l, id))

\* C7: after remove_id(id), in every list that held a todo with that id the
\* first such todo is gone from the container's own lists, and all other
\* todos keep their order and content.
C7_RemoveIdRemoves ==
    last.op = "remove_id" =>
        /\ Len(lists) = Len(pre)
        /\ \A i \in 1..Len(pre) :
              /\ lists[i].name = pre[i].name
              /\ lists[i].list = WithoutFirst(pre[i], last.id)

\* The todos of `items` at an index other than `first` that are not done.
RECURSIVE KeptFrom(_, _, _)
KeptFrom(items, k, first) ==
    IF k > Len(items) THEN <<>>
    ELSE (IF k # first /\ ~items[k].done THEN <<items[k]>> ELSE <<>>)
            \o KeptFrom(items, k + 1, first)

\* C8 as stated: done_id(x) then clean_lists() leaves no todo with id x in any
\* list, and every todo with another id is still there, in the same order and
\* with the same name and done flag.
C8_Original ==
    chain.x # 0 =>
        /\ Len(lists) = Len(chain.lists)
        /\ \A i \in 1..Len(lists) :
              /\ \A k \in 1..Len(lists[i].list) : lists[i].list[k].id # chain.x
              /\ SelectSeq(lists[i].list, LAMBDA t : t.id # chain.x)
                    = SelectSeq(chain.lists[i].list, LAMBDA t : t.id # chain.x)

\* C8 (amended): done_id(x) then clean_lists() removes from every list the
\* first todo with id x and every todo that was already done; all other todos
\* (a later todo with id x of the same list among them) are still there, in
\* the same order and unchanged, and the lists keep their number, order and
\* names.
C8_DoneThenClean ==
    chain.x # 0 =>
        /\ Len(lists) = Len(chain.lists)
        /\ \A i \in 1..Len(lists) :
              /\ lists[i].name = chain.lists[i].name
              /\ lists[i].list =
                    KeptFrom(chain.lists[i].list, 1, ContainsId(chain.lists[i], chain.x))

\* done_id(x) then clean_lists() ran on a list holding two todos with id x.
C8_Witness ==
    /\ chain.x # 0
    /\ \E i \in 1..Len(lists) :
          /\ Len(chain.lists[i].list) = 2
          /\ \A k \in 1..2 : chain.lists[i].list[k].id = chain.x
          /\ Len(lists[i].list) = 1

---------------------------------------------------------------------------
(* Storage: save, load and the legacy importer, on the containers the      *)
(* operations above reach and on files put at the path from outside.       *)

SaveDepth == 3

\* The containers one more public operation leads to.
StepFrom(S) ==
    S \cup {add_list(ls, l).lists : ls \in S, l \in ListArgs}
      \cup {remove_list(ls, n).lists : ls \in S, n \in NameArgs}
      \cup {add_todo(ls, n, t).lists : ls \in S, n \in TodoListArgs, t \in TodoArgs}
      \cup {done_id(ls, i) : ls \in S, i \in Ids}
      \cup {remove_id(ls, i) : ls \in S, i \in Ids}
      \cup {clean_lists(ls) : ls \in S}

RECURSIVE ReachableIn(_)
ReachableIn(k) == IF k = 0 THEN {new.lists} ELSE StepFrom(ReachableIn(k - 1))

\* Legacy documents: { list name: { id: [name, done] } }.
Item(key, name, done) == Entry(key, JArr(<<JStr(name), JBool(done)>>))

DocExample ==
    JObj(<<Entry("work", JObj(<<Item(<<"1">>, "buy milk", FALSE),
                                Item(<<"2">>, "ship release", TRUE)>>))>>)
DocEmpty == JObj(<<>>)
DocTwoLists ==
    JObj(<<Entry("default", JObj(<<>>)),
           Entry("home", JObj(<<Item(<<"0", "7">>, "a", TRUE),
                                Item(<<"1">>, "b", FALSE),
                                Item(<<"1", "2">>, "a", FALSE)>>))>>)
DocFieldNames ==
    JObj(<<Entry("lists", JObj(<<Item(<<"2">>, "b", TRUE)>>)),
           Entry("version", JObj(<<>>))>>)
DocCasing ==
    JObj(<<Entry("work", JObj(<<Item(<<"1">>, "a", FALSE)>>)),
           Entry("Work", JObj(<<Item(<<"1">>, "b", TRUE)>>))>>)
DocBadKey == JObj(<<Entry("work", JObj(<<Item(<<"x">>, "n", FALSE)>>))>>)
DocNegativeKey ==
    JObj(<<Entry("home", JObj(<<Item(<<"1">>, "a", FALSE)>>)),
           Entry("work", JObj(<<Item(<<"-", "1">>, "n", FALSE)>>))>>)
DocOverflowKey ==
    JObj(<<Entry("work",
                 JObj(<<Item(<<"4", "2", "9", "4", "9", "6", "7", "2", "9", "6">>, "n", TRUE)>>))>>)
DocPlusKey == JObj(<<Entry("work", JObj(<<Item(<<"+", "3">>, "n", TRUE)>>))>>)
DocNoDone ==
    JObj(<<Entry("work", JObj(<<Item(<<"1">>, "a", FALSE),
                                Entry(<<"2">>, JArr(<<JStr("n")>>))>>))>>)
DocNoName == JObj(<<Entry("work", JObj(<<Entry(<<"1">>, JArr(<<JBool(FALSE)>>))>>))>>)
DocThree ==
    JObj(<<Entry("work", JObj(<<Entry(<<"1">>, JArr(<<JStr("x"), JStr("n"), JBool(TRUE)>>))>>))>>)
DocBadFirst ==
    JObj(<<Entry("work", JObj(<<Item(<<"x">>, "n", FALSE), Item(<<"1">>, "a", TRUE)>>)),
           Entry("home", JObj(<<Item(<<"2">>, "b", FALSE)>>))>>)
DocScalarItem == JObj(<<Entry("work", JObj(<<Entry(<<"1">>, JStr("n"))>>))>>)
DocNumberName ==
    JObj(<<Entry("work", JObj(<<Entry(<<"1">>, JArr(<<JNum(3), JBool(TRUE)>>))>>))>>)
DocTopArray == JArr(<<JStr("work")>>)
DocListArray == JObj(<<Entry("work", JArr(<<JStr("1")>>))>>)
DocCurrentAsArray == JArr(<<JArr(<<>>), JStr("0.1.0")>>)

LegacyDocs ==
    {DocExample, DocEmpty, DocTwoLists, DocFieldNames, DocCasing, DocBadKey,
     DocNegativeKey, DocOverflowKey, DocPlusKey, DocNoDone, DocNoName, DocThree,
     DocBadFirst, DocScalarItem, DocNumberName,
     DocTopArray, DocListArray, DocCurrentAsArray}

\* What can be found at the path without a save of this process.
ExternalFiles == {JsonFile(d) : d \in LegacyDocs} \cup {NoFile, NotUtf8File, NotJsonFile}

\* Between the two opens of load the file can be removed or replaced.
SecondOpen(f) == {f, NoFile, NotUtf8File}

Alive == last.res # "panic"

InitStorage ==
    /\ lists \in ReachableIn(SaveDepth)
    /\ version = new.version
    /\ file = NoFile
    /\ last = Call("new", None, 0, NoTodo, NoList, "Ok")
    /\ pre = <<>>
    /\ chain = NoChain

Save ==
    \E created, written \in BOOLEAN :
        /\ Alive
        /\ file' = save(lists, version, file, created, written).file
        /\ last' = Call("save", None, 0, NoTodo, NoList,
                        save(lists, version, file, created, written).res)
        /\ pre' = lists
        /\ chain' = NoChain
        /\ UNCHANGED <<lists, version>>

Load ==
    \E second \in SecondOpen(file) :
        LET out == load(file, second)
        IN  /\ Alive
            /\ lists' = IF out.res = "Ok" THEN out.lists ELSE lists
            /\ version' = IF out.res = "Ok" THEN out.version ELSE version
            /\ file' = IF out.branch = "legacy" THEN second ELSE file
            /\ last' = [Call("load", None, 0, NoTodo, NoList, out.res) EXCEPT
                            !.io = [branch |-> out.branch,
                                    first |-> file,
                                    built |-> out.built,
                                    read |-> IF out.branch = "legacy" THEN second ELSE NoFile,
                                    after_save |-> last.op = "save" /\ last.res = "Ok",
                                    same |-> second = file,
                                    ver |-> version]]
            /\ pre' = lists
            /\ chain' = NoChain

\* Another program writes or removes the file.
EnvPut ==
    \E f \in ExternalFiles :
        /\ Alive
        /\ file' = f
        /\ last' = Call("env", None, 0, NoTodo, NoList, "Ok")
        /\ pre' = lists
        /\ chain' = NoChain
        /\ UNCHANGED <<lists, version>>

NextStorage ==
    \/ Save
    \/ Load
    \/ EnvPut

SpecStorage == InitStorage /\ [][NextStorage]_vars

\* add_list and remove_list on the container a caller holds after load: a
\* new one, or what load read or imported from the file at the path.
NextImport ==
    \/ EnvPut
    \/ Load
    \/ Alive /\ AddList
    \/ Alive /\ RemoveList

SpecImport == Init /\ [][NextImport]_vars

\* C9: a save that returns Ok followed by load (nobody else touching the file)
\* returns a container equal to the saved one (same lists, names, items,
\* order, version), through the current-format branch and not through the
\* legacy importer.
C9_RoundTrip ==
    (last.op = "load" /\ last.io.after_save /\ last.io.same) =>
        /\ last.res = "Ok"
        /\ last.io.branch = "current"
        /\ lists = pre
        /\ version = last.io.ver

\* The round trip when the write of save completed: the file holds the
\* serialized container and load reads the same container back.
RoundTripWhenWritten ==
    (last.op = "load" /\ last.io.after_save /\ file.kind = "json") =>
        /\ last.res = "Ok"
        /\ last.io.branch = "current"
        /\ lists = pre
        /\ version = last.io.ver

\* A legacy key of decimal digits that denotes a u32.
RECURSIVE DecimalValue(_)
DecimalValue(key) ==
    IF Len(key) = 0 THEN 0
    ELSE 10 * DecimalValue(SubSeq(key, 1, Len(key) - 1)) + DigitValue(key[Len(key)])

IsDecimalId(key) ==
    /\ Len(key) > 0
    /\ \A i \in 1..Len(key) : IsDigit(key[i])
    /\ ~OverflowsU32(key)

\* object of list name -> object of decimal id -> [name, done]
WellFormedLegacy(d) ==
    /\ d.t = "obj"
    /\ \A i \in 1..Len(d.e) :
          /\ d.e[i].v.t = "obj"
          /\ \A k \in 1..Len(d.e[i].v.e) :
                LET it == d.e[i].v.e[k]
                IN  /\ IsDecimalId(it.k)
                    /\ it.v.t = "arr"
                    /\ Len(it.v.a) = 2
                    /\ it.v.a[1].t = "str"
                    /\ it.v.a[2].t = "bool"

\* C10: for every well-formed legacy document the importer returns a container
\* with one list per top-level key, in document order and named by the key,
\* each list holding one item per entry, in document order, with the parsed
\* key as id, the text element as name and the boolean element as done.
C10_LegacyImport ==
    (last.op = "load" /\ last.io.branch = "legacy" /\ last.io.read.kind = "json"
        /\ WellFormedLegacy(last.io.read.doc)) =>
        LET d == last.io.read.doc
        IN  /\ last.res = "Ok"
            /\ Len(lists) = Len(d.e)
            /\ \A i \in 1..Len(d.e) :
                  /\ lists[i].name = d.e[i].k
                  /\ Len(lists[i].list) = Len(d.e[i].v.e)
                  /\ \A k \in 1..Len(d.e[i].v.e) :
                        /\ lists[i].list[k].id = DecimalValue(d.e[i].v.e[k].k)
                        /\ lists[i].list[k].name = d.e[i].v.e[k].v.a[1].s
                        /\ lists[i].list[k].done = d.e[i].v.e[k].v.a[2].b

\* The importer converted a document with two lists, one of them with three
\* items of which the first is done.
C10_Witness ==
    /\ last.op = "load"
    /\ last.io.branch = "legacy"
    /\ last.io.read = JsonFile(DocTwoLists)
    /\ last.res = "Ok"
    /\ Len(lists) = 2
    /\ Len(lists[2].list) = 3
    /\ lists[2].list[1].done

\* An entry the importer cannot convert: its key does not parse as a u32, or
\* its value has no boolean as last element, or no text before that.
BadEntry(it) ==
    \/ ~ParseU32(it.k).ok
    \/ it.v.t # "arr"
    \/ Len(it.v.a) = 0
    \/ it.v.a[Len(it.v.a)].t # "bool"
    \/ Len(it.v.a) < 2
    \/ it.v.a[Len(it.v.a) - 1].t # "str"

HasBadEntry(d) ==
    /\ d.t = "obj"
    /\ \E i \in 1..Len(d.e) :
          /\ d.e[i].v.t = "obj"
          /\ \E k \in 1..Len(d.e[i].v.e) : BadEntry(d.e[i].v.e[k])

ImportedFrom(d) ==
    /\ last.op = "load"
    /\ last.io.branch = "legacy"
    /\ last.io.read = JsonFile(d)

\* C11: when an entry of the legacy document has a key that does not parse as
\* an unsigned integer, or lacks the trailing boolean or the text before it,
\* the importer returns UnableToConvert and no container (nothing of the
\* lists converted so far), wherever the entry stands.
C11_BadEntryUnableToConvert ==
    (last.op = "load" /\ last.io.branch = "legacy" /\ last.io.read.kind = "json"
        /\ HasBadEntry(last.io.read.doc)) =>
        /\ last.res = "UnableToConvert"
        /\ lists = pre
        /\ version = last.io.ver

\* The importer gave up in the second list of a document, after it had
\* converted the first, and the caller's container is what it was.
C11_Witness ==
    /\ ImportedFrom(DocNegativeKey)
    /\ last.res = "UnableToConvert"
    /\ last.io.built >= 3
    /\ Len(pre) > 0
    /\ lists = pre

\* The legacy shape: an object of objects of [text, boolean] arrays.
ExactLegacyShape(d) ==
    /\ d.t = "obj"
    /\ \A i \in 1..Len(d.e) :
          /\ d.e[i].v.t = "obj"
          /\ \A k \in 1..Len(d.e[i].v.e) :
                LET v == d.e[i].v.e[k].v
                IN  v.t = "arr" /\ Len(v.a) = 2 /\ v.a[1].t = "str" /\ v.a[2].t = "bool"

\* C12: the importer rejects with an error, and converts to no container,
\* every JSON document whose top level is not an object, or that has a list
\* value that is not an object or an item value that is not exactly a
\* [text, boolean] pair.
C12_OnlyExactShape ==
    (last.op = "load" /\ last.io.branch = "legacy" /\ last.io.read.kind = "json"
        /\ ~ExactLegacyShape(last.io.read.doc)) =>
        /\ last.res # "Ok"
        /\ lists = pre

\* C13: whatever the path holds, and whatever happens to it between the two
\* opens, load returns a container or one of FileNotFound, FileCorrupted,
\* UnableToConvert; it never panics.
C13_LoadNeverPanics ==
    last.op = "load" =>
        last.res \in {"Ok", "FileNotFound", "FileCorrupted", "UnableToConvert"}

\* C14: when the file opens and its text is not JSON, load returns
\* FileCorrupted, having constructed no list and no item.
C14_NotJsonFileCorrupted ==
    (last.op = "load" /\ last.io.first.kind = "notjson" /\ last.io.same) =>
        /\ last.res = "FileCorrupted"
        /\ last.io.branch = "legacy"
        /\ last.io.built = 0
        /\ lists = pre
        /\ version = last.io.ver

\* load found text that is not JSON while the caller held a container.
C14_Witness ==
    /\ last.op = "load"
    /\ last.io.first.kind = "notjson"
    /\ last.io.same
    /\ last.res = "FileCorrupted"
    /\ Len(pre) > 0

\* C15: load of a path that cannot be opened returns FileNotFound and runs
\* neither the current-format deserialization nor the importer; the importer
\* runs only when the file was opened and did not deserialize as a Tdo.
C15_ImporterOnlyAfterFailedDeserialization ==
    last.op = "load" =>
        /\ last.io.first.kind = "missing" =>
              /\ last.res = "FileNotFound"
              /\ last.io.branch = "none"
              /\ last.io.built = 0
              /\ lists = pre
        /\ last.io.branch = "legacy" =>
              /\ last.io.first.kind # "missing"
              /\ ~from_reader(last.io.first).ok

\* load was called on a missing path while the caller held a container.
C15_Witness ==
    /\ last.op = "load"
    /\ last.io.first.kind = "missing"
    /\ last.res = "FileNotFound"
    /\ Len(pre) > 0

\* C16: remove_list(name) with a name other than "default" returns NoSuchList
\* and leaves the lists as they were when no list matches the name without
\* regard to case; otherwise it returns Ok and the lists are the earlier ones
\* without the first match, the others in their order and with their items.
C16_RemoveListFirstMatch ==
    (last.op = "remove_list" /\ last.name.v # "default") =>
        IF ~Matches(pre, last.name.v)
        THEN last.res = "NoSuchList" /\ lists = pre
        ELSE /\ last.res = "Ok"
             /\ Len(lists) = Len(pre) - 1
             /\ \E i \in 1..Len(pre) :
                   /\ Lower(pre[i]) = ToLowercase(last.name.v)
                   /\ \A j \in 1..(i - 1) : Lower(pre[j]) # ToLowercase(last.name.v)
                   /\ \A j \in 1..Len(lists) :
                         lists[j] = IF j < i THEN pre[j] ELSE pre[j + 1]

\* remove_list succeeded on three or more lists of which two matched the
\* name, and the second of them is still there.
C16_Witness ==
    /\ last.op = "remove_list"
    /\ last.name.v # "default"
    /\ last.res = "Ok"
    /\ Len(pre) >= 3
    /\ \E i, k \in 1..Len(pre) :
          /\ i < k
          /\ Lower(pre[i]) = ToLowercase(last.name.v)
          /\ Lower(pre[k]) = ToLowercase(last.name.v)
          /\ pre[i] # pre[k]
          /\ lists[k - 1] = pre[k]

\* C17: done_id(id) returns without error, keeps the number, order and names
\* of the lists and the number, order, ids and names of their todos, and a
\* todo is done afterwards exactly if it was done before or is the first todo
\* with that id in its list.
C17_DoneIdFrame ==
    last.op = "done_id" =>
        /\ last.res = "Ok"
        /\ Len(lists) = Len(pre)
        /\ \A i \in 1..Len(pre) :
              /\ lists[i].name = pre[i].name
              /\ Len(lists[i].list) = Len(pre[i].list)
              /\ \A k \in 1..Len(pre[i].list) :
                    /\ lists[i].list[k].id = pre[i].list[k].id
                    /\ lists[i].list[k].name = pre[i].list[k].name
                    /\ lists[i].list[k].done =
                          (\/ pre[i].list[k].done
                           \/ /\ pre[i].list[k].id = last.id
                              /\ \A j \in 1..(k - 1) : pre[i].list[j].id # last.id)

\* done_id marked a todo in each of two lists.
C17_Witness ==
    /\ last.op = "done_id"
    /\ \E i, h \in 1..Len(pre) :
          /\ i < h
          /\ \E k \in 1..Len(pre[i].list) :
                ~pre[i].list[k].done /\ lists[i].list[k].done
          /\ \E k \in 1..Len(pre[h].list) :
                ~pre[h].list[k].done /\ lists[h].list[k].done

\* C18: the container load returns through the importer holds a list named
\* "default", whatever legacy document the importer accepted.
C18_ImportedHasDefault ==
    (last.op = "load" /\ last.io.branch = "legacy" /\ last.res = "Ok") =>
        HasDefault(lists)

\* C19: the container load returns through the importer has no two lists
\* whose names are equal without regard to case, whatever legacy document the
\* importer accepted.
C19_ImportedNamesUnique ==
    (last.op = "load" /\ last.io.branch = "legacy" /\ last.res = "Ok") =>
        \A i, k \in 1..Len(lists) : Lower(lists[i]) = Lower(lists[k]) => i = k

=============================================================================
